---- MODULE Spec2Model ----
(***************************************************************************)
(* de-regex: one call of from_str / from_str_regex.                        *)
(*                                                                         *)
(* A call compiles the pattern (from_str only), matches it once against    *)
(* the input, projects the named groups that took part in the match into   *)
(* (name, Value) pairs and hands them, in the pattern's group order, to    *)
(* the derived visitor of the target struct, which asks the Value          *)
(* deserializer for each field's shape and finally fills the fields that   *)
(* got no pair.                                                            *)
(*                                                                         *)
(* Texts are strings; Len, SubSeq, Head, Tail and \o act on them.          *)
(***************************************************************************)
EXTENDS Integers, Sequences, FiniteSets, TLC

VARIABLES entry, schema, source, input, pc, regex, items, idx, built, calls, result

vars == <<entry, schema, source, input, pc, regex, items, idx, built, calls, result>>

(***************************************************************************)
(* Bounds                                                                  *)
(***************************************************************************)
\* The largest number of fields of a target struct, and of comma-separated
\* segments of an input line.
MaxFields == 2

(***************************************************************************)
(* Characters and texts                                                    *)
(***************************************************************************)
Char(s, i) == SubSeq(s, i, i)

Chars(s) == {Char(s, i) : i \in 1..Len(s)}

Digits == {"0", "1", "2", "3", "4", "5", "6", "7", "8", "9"}

UpperCase == "ABCDEFGHIJKLMNOPQRSTUVWXYZ"

LowerCase == "abcdefghijklmnopqrstuvwxyz"

WordChars == Digits \cup Chars(UpperCase) \cup Chars(LowerCase) \cup {"_"}

\* u8::to_ascii_lowercase on one character
to_ascii_lowercase(c) ==
    IF \E i \in 1..26 : Char(UpperCase, i) = c
    THEN Char(LowerCase, CHOOSE i \in 1..26 : Char(UpperCase, i) = c)
    ELSE c

\* str::eq_ignore_ascii_case
eq_ignore_ascii_case(a, b) ==
    /\ Len(a) = Len(b)
    /\ \A i \in 1..Len(a) : to_ascii_lowercase(Char(a, i)) = to_ascii_lowercase(Char(b, i))

AllDigits(s) == \A i \in 1..Len(s) : Char(s, i) \in Digits

DigitVal(c) ==
    CASE c = "0" -> 0 [] c = "1" -> 1 [] c = "2" -> 2 [] c = "3" -> 3 [] c = "4" -> 4
      [] c = "5" -> 5 [] c = "6" -> 6 [] c = "7" -> 7 [] c = "8" -> 8 [] c = "9" -> 9

RECURSIVE StripLeadingZeros(_)
\* The digits of a decimal numeral without its leading zeros ("" for zero).
StripLeadingZeros(s) ==
    IF s # "" /\ Head(s) = "0" THEN StripLeadingZeros(Tail(s)) ELSE s

RECURSIVE StripTrailingZeros(_)
StripTrailingZeros(s) ==
    IF s # "" /\ Char(s, Len(s)) = "0" THEN StripTrailingZeros(SubSeq(s, 1, Len(s) - 1)) ELSE s

RECURSIVE LexLeq(_, _)
\* a <= b for digit strings of one length
LexLeq(a, b) ==
    IF a = "" THEN TRUE
    ELSE IF Head(a) # Head(b) THEN DigitVal(Head(a)) < DigitVal(Head(b))
    ELSE LexLeq(Tail(a), Tail(b))

\* a <= b for the magnitudes written by two numerals without leading zeros
MagLeq(a, b) == Len(a) < Len(b) \/ (Len(a) = Len(b) /\ LexLeq(a, b))

(***************************************************************************)
(* Outcomes: Result<T, Error>                                              *)
(***************************************************************************)
NoText == ""

BadRegex == [kind |-> "BadRegex", name |-> "", value |-> NoText, msg |-> "regex parse error"]

NoMatch == [kind |-> "NoMatch", name |-> "", value |-> NoText, msg |-> ""]

BadValue(n, v) == [kind |-> "BadValue", name |-> n, value |-> v, msg |-> ""]

Custom(m) == [kind |-> "Custom", name |-> "", value |-> NoText, msg |-> m]

Ok(v) == [ok |-> TRUE, val |-> v]

Err(e) == [ok |-> FALSE, err |-> e]

(***************************************************************************)
(* std::str::FromStr for the integer types                                 *)
(***************************************************************************)
IntTypes == {"u8", "u16", "u32", "u64", "i8", "i16", "i32", "i64"}

IsSigned(ty) == ty \in {"i8", "i16", "i32", "i64"}

\* T::MAX as a numeral
MaxOf(ty) ==
    CASE ty = "u8" -> "255"
      [] ty = "u16" -> "65535"
      [] ty = "u32" -> "4294967295"
      [] ty = "u64" -> "18446744073709551615"
      [] ty = "i8" -> "127"
      [] ty = "i16" -> "32767"
      [] ty = "i32" -> "2147483647"
      [] ty = "i64" -> "9223372036854775807"

\* -T::MIN as a numeral
MinMagOf(ty) ==
    CASE ty = "i8" -> "128"
      [] ty = "i16" -> "32768"
      [] ty = "i32" -> "2147483648"
      [] ty = "i64" -> "9223372036854775808"
      [] OTHER -> ""

IntVal(ty, neg, mag) == [t |-> "int", ty |-> ty, neg |-> neg /\ mag # "", mag |-> mag]

\* <integer>::from_str: an optional '+' (and, for a signed type, '-'), then
\* one or more decimal digits, whose value fits the type.
ParseInt(ty, s) ==
    IF s = "" THEN Err("Empty")
    ELSE IF Head(s) \in {"+", "-"} /\ Len(s) = 1 THEN Err("InvalidDigit")
    ELSE LET neg == Head(s) = "-" /\ IsSigned(ty)
             body == IF Head(s) = "+" \/ neg THEN Tail(s) ELSE s
             mag == StripLeadingZeros(body)
         IN  IF ~AllDigits(body) THEN Err("InvalidDigit")
             ELSE IF neg /\ ~MagLeq(mag, MinMagOf(ty)) THEN Err("NegOverflow")
             ELSE IF ~neg /\ ~MagLeq(mag, MaxOf(ty)) THEN Err("PosOverflow")
             ELSE Ok(IntVal(ty, neg, mag))

(***************************************************************************)
(* std::str::FromStr for f32 and f64                                       *)
(*                                                                         *)
(* A finite value is kept as an exact decimal: the digits mant without     *)
(* leading or trailing zeros, times 10^exp. Rounding to the binary         *)
(* mantissa and underflow are not modelled; overflow to infinity is.       *)
(***************************************************************************)
FloatTypes == {"f32", "f64"}

\* The least decimal that rounds to infinity: MAX plus half a unit in the
\* last place (2^128 - 2^103 and 2^1024 - 2^970).
OverflowAt(ty) ==
    IF ty = "f32"
    THEN "340282356779733661637539395458142568448"
    ELSE "179769313486231580793728971405303415079934132710037826936173778980444968292764750946649017977587207096330286416692887910946555547851940402630657488671505820681908902000708383676273854845817711531764475730270069855571366959622842914819860834936475292719074168444365510704342711559699508093042880177904174497792"

RECURSIVE DigitPrefix(_)
DigitPrefix(s) ==
    IF s # "" /\ Head(s) \in Digits THEN Head(s) \o DigitPrefix(Tail(s)) ELSE ""

RECURSIVE NatOf(_, _)
\* The value of a digit string, saturating at 100000: an exponent that far
\* out makes every value zero or infinite.
NatOf(s, acc) ==
    IF s = "" THEN acc
    ELSE IF acc >= 100000 THEN 100000
    ELSE NatOf(Tail(s), 10 * acc + DigitVal(Head(s)))

\* 0.m >= 0.lim for two digit strings read as decimal fractions
FracGeq(m, lim) ==
    LET n == IF Len(m) < Len(lim) THEN Len(m) ELSE Len(lim)
        a == SubSeq(m, 1, n)
        b == SubSeq(lim, 1, n)
    IN  IF a # b THEN ~LexLeq(a, b)
        ELSE Len(m) >= Len(lim) \/ StripTrailingZeros(SubSeq(lim, n + 1, Len(lim))) = ""

Infinity(ty, neg) == [t |-> "float", ty |-> ty, kind |-> "inf", neg |-> neg, mant |-> "", exp |-> 0]

NaN(ty) == [t |-> "float", ty |-> ty, kind |-> "nan", neg |-> FALSE, mant |-> "", exp |-> 0]

FloatVal(ty, neg, digits, e) ==
    LET m0 == StripLeadingZeros(digits)
        m == StripTrailingZeros(m0)
        ex == e + (Len(m0) - Len(m))
        lim == OverflowAt(ty)
        k == Len(m) + ex
        over == k > Len(lim) \/ (k = Len(lim) /\ FracGeq(m, lim))
    IN  IF m = "" THEN [t |-> "float", ty |-> ty, kind |-> "num", neg |-> neg, mant |-> "", exp |-> 0]
        ELSE IF over THEN Infinity(ty, neg)
        ELSE [t |-> "float", ty |-> ty, kind |-> "num", neg |-> neg, mant |-> m, exp |-> ex]

SkipSign(s) == IF s # "" /\ Head(s) \in {"+", "-"} THEN Tail(s) ELSE s

\* What follows the leading digits
AfterDigits(s) == SubSeq(s, Len(DigitPrefix(s)) + 1, Len(s))

\* The digits after a '.', and what follows them
FracDigits(s) == IF s # "" /\ Head(s) = "." THEN DigitPrefix(Tail(s)) ELSE ""

AfterFrac(s) == IF s # "" /\ Head(s) = "." THEN AfterDigits(Tail(s)) ELSE s

\* The exponent: nothing, or 'e' or 'E', an optional sign and digits
ParseExponent(s) ==
    IF s = "" THEN Ok(0)
    ELSE IF Head(s) \notin {"e", "E"} THEN Err("Invalid")
    ELSE IF SkipSign(Tail(s)) = "" \/ ~AllDigits(SkipSign(Tail(s))) THEN Err("Invalid")
    ELSE IF Char(s, 2) = "-" THEN Ok(0 - NatOf(SkipSign(Tail(s)), 0))
    ELSE Ok(NatOf(SkipSign(Tail(s)), 0))

\* A decimal number: digits with an optional '.', a digit on at least one
\* side of it, and an optional exponent
ParseNumber(ty, neg, body) ==
    LET ip == DigitPrefix(body)
        fp == FracDigits(AfterDigits(body))
        ex == ParseExponent(AfterFrac(AfterDigits(body)))
    IN  IF ip \o fp # "" /\ ex.ok THEN Ok(FloatVal(ty, neg, ip \o fp, ex.val - Len(fp)))
        ELSE Err("Invalid")

\* <float>::from_str: an optional sign, then a decimal number or one of
\* inf, infinity, nan in any case.
ParseFloat(ty, s) ==
    IF s = "" THEN Err("Empty")
    ELSE IF SkipSign(s) = "" THEN Err("Invalid")
    ELSE IF ParseNumber(ty, Head(s) = "-", SkipSign(s)).ok
         THEN ParseNumber(ty, Head(s) = "-", SkipSign(s))
    ELSE IF eq_ignore_ascii_case(SkipSign(s), "nan") THEN Ok(NaN(ty))
    ELSE IF eq_ignore_ascii_case(SkipSign(s), "inf") \/ eq_ignore_ascii_case(SkipSign(s), "infinity")
         THEN Ok(Infinity(ty, Head(s) = "-"))
    ELSE Err("Invalid")

\* str::parse::<T>() for the numeric types
str_parse(ty, s) == IF ty \in IntTypes THEN ParseInt(ty, s) ELSE ParseFloat(ty, s)

(***************************************************************************)
(* Target shapes and native values                                         *)
(*                                                                         *)
(* A shape is what a field's type asks of its deserializer: k names the    *)
(* deserialize_<k> method its Deserialize impl calls, and with it the      *)
(* visitor it passes.                                                      *)
(***************************************************************************)
Prim(k) == [k |-> k]

OptionOf(s) == [k |-> "option", inner |-> s]

NewtypeOf(s) == [k |-> "newtype_struct", inner |-> s]

EnumOf(vs) == [k |-> "enum", variants |-> vs]

\* One variant of an enum: its Rust identifier, the name it deserializes
\* from, whether it is a unit or a newtype variant, and #[serde(skip)].
VariantDecl(ident, rename, kind, skip) ==
    [ident |-> ident, rename |-> rename, kind |-> kind, skip |-> skip]

BoolVal(b) == [t |-> "bool", v |-> b]

StringVal(s) == [t |-> "string", v |-> s]

CharVal(c) == [t |-> "char", v |-> c]

CStringVal(s) == [t |-> "c_string", v |-> s]

IgnoredAnyVal == [t |-> "ignored_any"]

NoneVal == [t |-> "none"]

SomeVal(v) == [t |-> "some", v |-> v]

NewtypeVal(v) == [t |-> "newtype", v |-> v]

VariantVal(ident) == [t |-> "variant", ident |-> ident]

StructVal(fs) == [t |-> "struct", fields |-> fs]

(***************************************************************************)
(* struct Value: the deserializer of one struct member                     *)
(***************************************************************************)
Value(n, v) == [name |-> n, value |-> v]

\* What deserialize returns, with the deserialize_* methods it went through.
Done(res, cs) == [res |-> res, calls |-> cs]

\* Fault injection: the failure reported as a generic error, without name and text
get_parse_error_custom(self) == Err(Custom("invalid value"))

\* Value::get_parse_error
get_parse_error(self) == Err(BadValue(self.name, self.value))

\* Value::parse::<T>
parse(self, ty) ==
    LET r == str_parse(ty, self.value)
    IN  IF r.ok THEN r ELSE get_parse_error(self)

\* Visitor::visit_string of the shape's visitor; the default one reports
\* an invalid type.
visit_string(shape, text) ==
    CASE shape.k = "string" -> Ok(StringVal(text))
      [] shape.k = "char" ->
            IF Len(text) = 1 THEN Ok(CharVal(text))
            ELSE Err(Custom("invalid value: string, expected a character"))
      [] shape.k = "byte_buf" -> Ok(CStringVal(text))
      [] shape.k = "ignored_any" -> Ok(IgnoredAnyVal)
      [] OTHER -> Err(Custom("invalid type: string, expected " \o shape.k))

\* Fault injection: a visitor's refusal reported as a bad value of the group
deserialize_any_bad_value(self, shape) ==
    IF visit_string(shape, self.value).ok THEN visit_string(shape, self.value)
    ELSE get_parse_error(self)

\* Value::deserialize_any, and the methods forwarded to it
deserialize_any(self, shape) == visit_string(shape, self.value)

\* Value::deserialize_bool
deserialize_bool(self) ==
    IF eq_ignore_ascii_case(self.value, "true") THEN Ok(BoolVal(TRUE))
    ELSE IF eq_ignore_ascii_case(self.value, "false") THEN Ok(BoolVal(FALSE))
    ELSE get_parse_error(self)

\* Value::deserialize_i8 .. deserialize_u64, deserialize_f32, deserialize_f64
deserialize_num(self, ty) == parse(self, ty)

\* Fault injection: variant names compared without regard to case
variant_index_ignore_case(variants, text) ==
    IF \E i \in 1..Len(variants) : ~variants[i].skip /\ eq_ignore_ascii_case(variants[i].rename, text)
    THEN CHOOSE i \in 1..Len(variants) :
             ~variants[i].skip /\ eq_ignore_ascii_case(variants[i].rename, text)
    ELSE 0

\* The variant the text names, as the derived variant identifier finds it
\* (0 when it names none).
variant_index(variants, text) ==
    IF \E i \in 1..Len(variants) : ~variants[i].skip /\ variants[i].rename = text
    THEN CHOOSE i \in 1..Len(variants) : ~variants[i].skip /\ variants[i].rename = text
    ELSE 0

\* Value::deserialize_enum: the text alone is the enum access, so that only
\* a unit variant can be taken from it.
deserialize_enum(self, variants) ==
    LET i == variant_index(variants, self.value)
    IN  IF i = 0 THEN Err(Custom("unknown variant"))
        ELSE IF variants[i].kind = "unit" THEN Ok(VariantVal(variants[i].ident))
        ELSE Err(Custom("invalid type: unit variant, expected newtype variant"))

RECURSIVE deserialize(_, _)

\* Fault injection: the inner type asked even for the empty text
deserialize_option_always_some(self, inner) ==
    LET r == deserialize(inner, self)
    IN  Done(IF r.res.ok THEN Ok(SomeVal(r.res.val)) ELSE r.res,
             <<"deserialize_option">> \o r.calls)

\* Value::deserialize_option: None for the empty text, else Some of what
\* the inner type makes of the same Value
deserialize_option(self, inner) ==
    IF self.value = "" THEN Done(Ok(NoneVal), <<"deserialize_option">>)
    ELSE LET r == deserialize(inner, self)
         IN  Done(IF r.res.ok THEN Ok(SomeVal(r.res.val)) ELSE r.res,
                  <<"deserialize_option">> \o r.calls)

\* Value::deserialize_newtype_struct: the inner type on the same Value
deserialize_newtype_struct(self, inner) ==
    LET r == deserialize(inner, self)
    IN  Done(IF r.res.ok THEN Ok(NewtypeVal(r.res.val)) ELSE r.res,
             <<"deserialize_newtype_struct">> \o r.calls)

\* <T as Deserialize>::deserialize(Value) for a field of the given shape
deserialize(shape, self) ==
    LET k == shape.k
        m == "deserialize_" \o k
    IN  CASE k = "bool" -> Done(deserialize_bool(self), <<m>>)
          [] k \in IntTypes \cup FloatTypes -> Done(deserialize_num(self, k), <<m>>)
          [] k = "option" -> deserialize_option(self, shape.inner)
          [] k = "newtype_struct" -> deserialize_newtype_struct(self, shape.inner)
          [] k = "enum" -> Done(deserialize_enum(self, shape.variants), <<m>>)
          [] OTHER -> Done(deserialize_any(self, shape), <<m, "deserialize_any">>)

(***************************************************************************)
(* The pattern: regex::Regex                                               *)
(*                                                                         *)
(* The patterns are the anchored, comma-separated ones of the crate's      *)
(* tests: ^g1,g2,...,gn$, each g a capture group over one character class. *)
(* A source is the sequence of its groups: the name ("" for an unnamed     *)
(* group), whether the name is closed by '>', and the class.               *)
(***************************************************************************)
\* The classes:  any  [^,]*    word  \w*    digits  \d*    int  [-+]?\d+
\* and opt_digits, the optional group (\d+)?
Group(name, class) == [name |-> name, closed |-> TRUE, class |-> class]

Unclosed(name, class) == [name |-> name, closed |-> FALSE, class |-> class]

\* Regex::new: a group name that is not closed, or a name used twice, is a
\* syntax error.
Regex_new(src) ==
    IF \/ \E i \in 1..Len(src) : src[i].name # "" /\ ~src[i].closed
       \/ \E i, j \in 1..Len(src) : i # j /\ src[i].name # "" /\ src[i].name = src[j].name
    THEN Err(BadRegex)
    ELSE Ok([i \in 1..Len(src) |-> [name |-> src[i].name, class |-> src[i].class]])

RECURSIVE Split(_)
\* The segments of a line between its commas
Split(s) ==
    IF \E i \in 1..Len(s) : Char(s, i) = ","
    THEN LET i == CHOOSE i \in 1..Len(s) :
                      Char(s, i) = "," /\ \A j \in 1..(i - 1) : Char(s, j) # ","
         IN  <<SubSeq(s, 1, i - 1)>> \o Split(SubSeq(s, i + 1, Len(s)))
    ELSE <<s>>

RECURSIVE Join(_)
Join(ts) == IF Len(ts) = 1 THEN ts[1] ELSE ts[1] \o "," \o Join(Tail(ts))

ClassMatches(class, seg) ==
    CASE class = "any" -> TRUE
      [] class = "word" -> Chars(seg) \subseteq WordChars
      [] class = "digits" -> AllDigits(seg)
      [] class = "opt_digits" -> AllDigits(seg)
      [] class = "int" ->
            LET b == IF seg # "" /\ Head(seg) \in {"+", "-"} THEN Tail(seg) ELSE seg
            IN  b # "" /\ AllDigits(b)

NoCaptures == [matched |-> FALSE, groups |-> <<>>]

\* Regex::captures: None, or the text of every group that took part in the
\* match; an optional group that matched nothing took no part.
captures(re, text) ==
    LET segs == Split(text)
    IN  IF Len(segs) = Len(re) /\ \A i \in 1..Len(re) : ClassMatches(re[i].class, segs[i])
        THEN [matched |-> TRUE,
              groups |-> [i \in 1..Len(re) |->
                            IF re[i].class = "opt_digits" /\ segs[i] = ""
                            THEN [some |-> FALSE, text |-> NoText]
                            ELSE [some |-> TRUE, text |-> segs[i]]]]
        ELSE NoCaptures

\* Regex::capture_names: group 0 (the whole match) is unnamed, then the
\* groups in the order the pattern declares them; "" stands for None.
capture_names(re) == <<"">> \o [i \in 1..Len(re) |-> re[i].name]

\* Captures::name
caps_name(re, caps, n) ==
    IF \E i \in 1..Len(re) : re[i].name = n
    THEN caps.groups[CHOOSE i \in 1..Len(re) : re[i].name = n]
    ELSE [some |-> FALSE, text |-> NoText]

(***************************************************************************)
(* struct Deserializer and the derived visitor of the target struct        *)
(***************************************************************************)
Field(name, shape) == [name |-> name, shape |-> shape]

Unset == [set |-> FALSE, val |-> NoneVal]

SetTo(v) == [set |-> TRUE, val |-> v]

\* Fault injection: every name paired with the text of the first group
map_items_first_text(re, caps) ==
    LET named == SelectSeq(capture_names(re),
                           LAMBDA n : n # "" /\ caps_name(re, caps, n).some)
    IN  [i \in 1..Len(named) |->
            [key |-> named[i], value |-> Value(named[i], caps.groups[1].text)]]

\* Fault injection: the pairs yielded last group first
map_items_reversed(re, caps) ==
    LET named == SelectSeq(capture_names(re),
                           LAMBDA n : n # "" /\ caps_name(re, caps, n).some)
    IN  [i \in 1..Len(named) |->
            [key |-> named[Len(named) + 1 - i],
             value |-> Value(named[Len(named) + 1 - i],
                             caps_name(re, caps, named[Len(named) + 1 - i]).text)]]

\* The iterator handed to MapDeserializer::new, in the order it yields
map_items(re, caps) ==
    LET named == SelectSeq(capture_names(re),
                           LAMBDA n : n # "" /\ caps_name(re, caps, n).some)
    IN  [i \in 1..Len(named) |->
            [key |-> named[i], value |-> Value(named[i], caps_name(re, caps, named[i]).text)]]

\* The derived field identifier: the field's index, 0 for an unknown key
field_index(sch, key) ==
    IF \E f \in 1..Len(sch) : sch[f].name = key
    THEN CHOOSE f \in 1..Len(sch) : sch[f].name = key
    ELSE 0

\* One turn of the derived visit_map loop: next_key, then next_value for
\* the field's type (IgnoredAny for an unknown key).
visit_entry(sch, slots, item) ==
    LET f == field_index(sch, item.key)
    IN  IF f = 0
        THEN LET r == deserialize(Prim("ignored_any"), item.value)
             IN  Done(IF r.res.ok THEN Ok(slots) ELSE r.res, r.calls)
        ELSE IF slots[f].set THEN Done(Err(Custom("duplicate field " \o item.key)), <<>>)
        ELSE LET r == deserialize(sch[f].shape, item.value)
             IN  Done(IF r.res.ok THEN Ok([slots EXCEPT ![f] = SetTo(r.res.val)]) ELSE r.res,
                      r.calls)

\* Fault injection: a missing field filled with a default
missing_field_default(fld) == Ok(NoneVal)

\* serde's missing_field: only an Option takes a missing field, as None
missing_field(fld) ==
    IF fld.shape.k = "option" THEN Ok(NoneVal)
    ELSE Err(Custom("missing field " \o fld.name))

\* The end of the derived visit_map: the fields in declaration order, a
\* field no key set being filled by missing_field.
end_of_map(sch, slots) ==
    LET got == [f \in 1..Len(sch) |->
                   IF slots[f].set THEN Ok(slots[f].val) ELSE missing_field(sch[f])]
        bad == {f \in 1..Len(sch) : ~got[f].ok}
    IN  IF bad = {} THEN Ok(StructVal([f \in 1..Len(sch) |-> got[f].val]))
        ELSE got[CHOOSE f \in bad : \A g \in bad : f <= g]

RECURSIVE visit_map(_, _, _, _)
\* The derived Visitor::visit_map over the items from the i-th on
visit_map(sch, its, i, slots) ==
    IF i > Len(its) THEN end_of_map(sch, slots)
    ELSE LET r == visit_entry(sch, slots, its[i]).res
         IN  IF r.ok THEN visit_map(sch, its, i + 1, r.val) ELSE r

NoSlots(sch) == [f \in 1..Len(sch) |-> Unset]

\* Deserializer::deserialize_map as a function of the call's arguments
deserialize_map(text, re, sch) ==
    LET caps == captures(re, text)
    IN  IF ~caps.matched THEN Err(NoMatch)
        ELSE visit_map(sch, map_items(re, caps), 1, NoSlots(sch))

\* from_str_regex as a function of its arguments
from_str_regex(text, re, sch) == deserialize_map(text, re, sch)

(***************************************************************************)
(* The inputs of a call                                                    *)
(***************************************************************************)
Pending == Ok([t |-> "pending"])

NoRegex == <<>>

NamePool == <<"foo", "bar", "baz", "qux">>

FieldNames == {NamePool[i] : i \in 1..MaxFields}

\* lib.rs:170  ^(?P<foo>...),(?P<bar>...)$
PatFooBar == <<Group("foo", "any"), Group("bar", "any")>>

\* lib.rs:197  ^(?P<foo>\d*)$
PatFoo == <<Group("foo", "digits")>>

\* lib.rs:179  ^(?P<foo\d*),(?P<bar>\d*)$
PatMalformed == <<Unclosed("foo", "digits"), Group("bar", "digits")>>

\* ^(?P<foo>\d+)?,(?P<bar>[^,]*)$
PatOptional == <<Group("foo", "opt_digits"), Group("bar", "any")>>

\* ^([^,]*),(?P<bar>\w*)$
PatUnnamed == <<Group("", "any"), Group("bar", "word")>>

\* lib.rs:319  ^(?P<foo>[-+]?\d+),(?P<bar>[-+]?\d+)$
PatInt == <<Group("foo", "int"), Group("bar", "int")>>

PipelinePatterns == {PatFooBar, PatFoo, PatMalformed, PatOptional, PatUnnamed, PatInt}

PipelineShapes == {Prim("u8"), OptionOf(Prim("u8")), Prim("string")}

PipelineTexts == {"1", "", "x"}

Schemas(decls) ==
    {sch \in UNION {[1..n -> decls] : n \in 1..MaxFields} :
        \A i, j \in 1..Len(sch) : i # j => sch[i].name # sch[j].name}

Lines(texts) == {Join(ts) : ts \in UNION {[1..n -> texts] : n \in 1..MaxFields}}

\* lib.rs:59-64 (the documented enum) and lib.rs:374-380 (the tested one)
DocEnum ==
    EnumOf(<<VariantDecl("Foo", "Foo", "unit", FALSE), VariantDecl("Bar", "bar", "unit", FALSE),
             VariantDecl("Baz", "Baz", "newtype", FALSE)>>)

TestEnum ==
    EnumOf(<<VariantDecl("Foo", "Foo", "unit", FALSE), VariantDecl("Bar", "bar", "unit", FALSE),
             VariantDecl("Baz", "Baz", "newtype", TRUE)>>)

Scalars == {Prim(k) : k \in {"bool", "string"} \cup IntTypes \cup FloatTypes} \cup {DocEnum, TestEnum}

Structured ==
    {Prim(k) : k \in {"struct", "map", "seq", "tuple", "tuple_struct", "unit", "unit_struct",
                      "bytes", "byte_buf", "str", "char", "ignored_any"}}

FieldShapes ==
    Scalars \cup Structured
      \cup {OptionOf(s) : s \in Scalars \cup Structured}
      \cup {NewtypeOf(s) : s \in Scalars \cup Structured}
      \cup {OptionOf(OptionOf(Prim("u8"))), OptionOf(NewtypeOf(Prim("i32"))),
            NewtypeOf(OptionOf(Prim("i32"))), NewtypeOf(NewtypeOf(Prim("bool")))}

FieldTexts ==
    {"", "true", "TRUE", "TrUe", "false", "FALSE", "FAlse", "yes", "tru", "truee",
     "0", "1", "+1", "-1", "-0", "+", "-", "007", "123", "+123", "-123", "#123", " 1", "1 ",
     "127", "128", "-128", "-129", "255", "256",
     "32767", "32768", "-32768", "-32769", "65535", "65536",
     "2147483647", "2147483648", "-2147483648", "-2147483649", "4294967295", "4294967296",
     "9223372036854775807", "9223372036854775808", "-9223372036854775808",
     "-9223372036854775809", "18446744073709551615", "18446744073709551616",
     "1.0", "-1.0", "1.23", ".5", "5.", ".", "1e3", "1e", "inf", "NaN", "4e38", "1.5.2",
     "Foo", "foo", "bar", "Bar", "Baz", "Fo", "Foo ", "foobar", "a"}

FieldPatterns == {<<Group("v", "any")>>, <<Group("v", "int")>>, <<Group("v", "opt_digits")>>}

(***************************************************************************)
(* State machine                                                           *)
(***************************************************************************)
Start(e, sch, src, text) ==
    /\ entry = e /\ schema = sch /\ source = src /\ input = text
    /\ pc = "start"
    /\ regex = NoRegex
    /\ items = <<>> /\ idx = 0
    /\ built = NoSlots(sch)
    /\ calls = <<>>
    /\ result = Pending

\* Whole records through the pipeline: up to MaxFields fields and groups.
InitPipeline ==
    \E e \in {"from_str", "from_str_regex"},
       sch \in Schemas({Field(n, s) : n \in FieldNames, s \in PipelineShapes}),
       src \in PipelinePatterns, text \in Lines(PipelineTexts) :
        /\ e = "from_str_regex" => Regex_new(src).ok
        /\ Start(e, sch, src, text)

\* One field v of every shape against every text.
InitField ==
    \E sh \in FieldShapes, src \in FieldPatterns, text \in FieldTexts :
        Start("from_str", <<Field("v", sh)>>, src, text)

Init == InitPipeline \/ InitField

\* Fault injection: a pattern that does not compile reported as no match
FromStr_NoMatchOnBadRegex ==
    /\ pc = "start" /\ entry = "from_str"
    /\ LET r == Regex_new(source)
       IN  IF r.ok
           THEN /\ regex' = r.val
                /\ pc' = "deserialize"
                /\ UNCHANGED result
           ELSE /\ result' = Err(NoMatch)
                /\ pc' = "done"
                /\ UNCHANGED regex
    /\ UNCHANGED <<entry, schema, source, input, items, idx, built, calls>>

\* from_str: compile the pattern, then go on as from_str_regex
FromStr ==
    /\ pc = "start" /\ entry = "from_str"
    /\ LET r == Regex_new(source)
       IN  IF r.ok
           THEN /\ regex' = r.val
                /\ pc' = "deserialize"
                /\ UNCHANGED result
           ELSE /\ result' = Err(r.err)
                /\ pc' = "done"
                /\ UNCHANGED regex
    /\ UNCHANGED <<entry, schema, source, input, items, idx, built, calls>>

\* from_str_regex: the caller holds the compiled pattern
FromStrRegex ==
    /\ pc = "start" /\ entry = "from_str_regex"
    /\ regex' = Regex_new(source).val
    /\ pc' = "deserialize"
    /\ UNCHANGED <<entry, schema, source, input, items, idx, built, calls, result>>

\* Fault injection: a line that does not match taken as one with no groups
DeserializeMap_IgnoreNoMatch ==
    /\ pc = "deserialize"
    /\ items' = IF captures(regex, input).matched
                 THEN map_items(regex, captures(regex, input))
                 ELSE <<>>
    /\ pc' = "visit_map"
    /\ UNCHANGED <<entry, schema, source, input, regex, idx, built, calls, result>>

\* Deserializer::deserialize_map up to visitor.visit_map: the one match
DeserializeMap ==
    /\ pc = "deserialize"
    /\ LET caps == captures(regex, input)
       IN  IF caps.matched
           THEN /\ items' = map_items(regex, caps)
                /\ pc' = "visit_map"
                /\ UNCHANGED result
           ELSE /\ result' = Err(NoMatch)
                /\ pc' = "done"
                /\ UNCHANGED items
    /\ UNCHANGED <<entry, schema, source, input, regex, idx, built, calls>>

\* One turn of the visitor's loop over the map
NextEntry ==
    /\ pc = "visit_map" /\ idx < Len(items)
    /\ LET r == visit_entry(schema, built, items[idx + 1])
       IN  /\ idx' = idx + 1
           /\ calls' = Append(calls, r.calls)
           /\ IF r.res.ok
              THEN /\ built' = r.res.val
                   /\ UNCHANGED <<pc, result>>
              ELSE /\ result' = r.res
                   /\ pc' = "done"
                   /\ UNCHANGED built
    /\ UNCHANGED <<entry, schema, source, input, regex, items>>

\* The map is exhausted: the visitor builds the struct
EndOfMap ==
    /\ pc = "visit_map" /\ idx = Len(items)
    /\ result' = end_of_map(schema, built)
    /\ pc' = "done"
    /\ UNCHANGED <<entry, schema, source, input, regex, items, idx, built, calls>>

Next == FromStr \/ FromStrRegex \/ DeserializeMap \/ NextEntry \/ EndOfMap

Spec == Init /\ [][Next]_vars

(***************************************************************************)
(* What the properties speak of                                            *)
(***************************************************************************)
Compiles == Regex_new(source).ok

\* The compiled pattern and the capture set of the call's line, as the
\* regex engine gives them for the call's arguments.
ThePattern == Regex_new(source).val

TheCaptures == captures(ThePattern, input)

Matches == Compiles /\ TheCaptures.matched

FieldIds == 1..Len(schema)

\* The captured text of a field's group, if the group took part in the match
Captured(f) == caps_name(ThePattern, TheCaptures, schema[f].name)

\* The place of a field's group among the groups of the pattern
GroupPos(f) == CHOOSE i \in 1..Len(source) : source[i].name = schema[f].name

NumericKinds == IntTypes \cup FloatTypes

RECURSIVE Convertible(_, _)
\* The texts the supported shapes convert: true or false in any case, a
\* numeral of the type, any text, the name of a unit variant; a wrapper
\* converts what its inner shape does, an Option the empty text as well.
Convertible(shape, text) ==
    CASE shape.k = "bool" ->
            eq_ignore_ascii_case(text, "true") \/ eq_ignore_ascii_case(text, "false")
      [] shape.k \in NumericKinds -> str_parse(shape.k, text).ok
      [] shape.k = "string" -> TRUE
      [] shape.k = "newtype_struct" -> Convertible(shape.inner, text)
      [] shape.k = "option" -> text = "" \/ Convertible(shape.inner, text)
      [] shape.k = "enum" ->
            \E i \in 1..Len(shape.variants) :
                shape.variants[i].kind = "unit" /\ shape.variants[i].rename = text
      [] OTHER -> FALSE

RECURSIVE Conversion(_, _)
\* The value a convertible text stands for under a shape
Conversion(shape, text) ==
    CASE shape.k = "bool" -> BoolVal(eq_ignore_ascii_case(text, "true"))
      [] shape.k \in NumericKinds -> str_parse(shape.k, text).val
      [] shape.k = "string" -> StringVal(text)
      [] shape.k = "newtype_struct" -> NewtypeVal(Conversion(shape.inner, text))
      [] shape.k = "option" ->
            IF text = "" THEN NoneVal ELSE SomeVal(Conversion(shape.inner, text))
      [] shape.k = "enum" ->
            VariantVal(shape.variants[CHOOSE i \in 1..Len(shape.variants) :
                                          shape.variants[i].rename = text].ident)

\* The visitor has asked for the field's value: its group's pair has been
\* taken from the map.
Asked(f) ==
    \E i \in 1..idx : items[i].key = schema[f].name

\* The field's conversion was asked for and gave no value: the call ended there.
FailedAt(f) ==
    /\ idx >= 1 /\ items[idx].key = schema[f].name
    /\ ~built[f].set

(***************************************************************************)
(* Properties                                                              *)
(***************************************************************************)

\* C1: when the pattern's named groups are the schema's field names, the
\* line matches and every field's captured text is convertible under the
\* field's shape, the call succeeds and every field of the record is the
\* conversion of exactly its own group's text.
C1_Pre ==
    /\ Matches
    /\ {source[i].name : i \in 1..Len(source)} \ {""} = {schema[f].name : f \in FieldIds}
    /\ \A f \in FieldIds : Captured(f).some /\ Convertible(schema[f].shape, Captured(f).text)

C1_FieldsAreConversions ==
    (pc = "done" /\ C1_Pre) =>
        /\ result.ok
        /\ result.val.t = "struct"
        /\ \A f \in FieldIds :
              result.val.fields[f] = Conversion(schema[f].shape, Captured(f).text)

C1_Witness ==
    /\ pc = "done" /\ C1_Pre
    /\ schema = <<Field("bar", Prim("string")), Field("foo", Prim("u8"))>>
    /\ input = "1,x"
    /\ result = Ok(StructVal(<<StringVal("x"), IntVal("u8", FALSE, "1")>>))

\* C2: a line the compiled pattern does not match ends the call with
\* NoMatch, whatever the schema: no conversion is asked for, no slot of
\* the record is set, no record is returned.
C2_NoMatch ==
    (Compiles /\ ~TheCaptures.matched) =>
        /\ calls = <<>> /\ idx = 0 /\ items = <<>>
        /\ built = NoSlots(schema)
        /\ pc \in {"start", "deserialize", "done"}
        /\ pc = "done" => result = Err(NoMatch)

C2_Witness ==
    /\ pc = "done" /\ Compiles /\ ~TheCaptures.matched
    /\ source = PatInt /\ input = "x,1"
    /\ Len(schema) = 2
    /\ result = Err(NoMatch)

\* C3: a bool, integer or float field whose captured text is not
\* convertible ends the call, at that field, with BadValue carrying the
\* group's name and the text as captured; the field gets no value.
C3_BadValue ==
    \A f \in FieldIds :
        (/\ Matches /\ Asked(f)
         /\ schema[f].shape.k \in {"bool"} \cup NumericKinds
         /\ ~Convertible(schema[f].shape, Captured(f).text)) =>
            /\ FailedAt(f)
            /\ pc = "done"
            /\ result = Err(BadValue(schema[f].name, Captured(f).text))

C3_Witness ==
    /\ pc = "done"
    /\ schema = <<Field("v", Prim("u8"))>> /\ input = "-1"
    /\ result = Err(BadValue("v", "-1"))

\* C4: an Option field whose group took part in the match is None for the
\* empty text, the inner shape never being asked; for any other text it is
\* Some(v) exactly when the inner shape makes v of the same text, and the
\* inner shape's error is the call's error, unchanged.
C4_Option ==
    \A i \in 1..idx :
        LET f == field_index(schema, items[i].key)
            val == items[i].value
        IN  (f # 0 /\ schema[f].shape.k = "option") =>
                /\ val.value = Captured(f).text
                /\ IF val.value = ""
                   THEN /\ built[f] = SetTo(NoneVal)
                        /\ calls[i] = <<"deserialize_option">>
                   ELSE LET r == deserialize(schema[f].shape.inner, val).res
                        IN  IF r.ok
                            THEN built[f] = SetTo(SomeVal(r.val))
                            ELSE /\ ~built[f].set
                                 /\ i = idx /\ pc = "done" /\ result = r
                /\ (pc = "done" /\ result.ok) => result.val.fields[f] = built[f].val

C4_Witness ==
    /\ pc = "done"
    /\ schema = <<Field("foo", OptionOf(Prim("u8"))), Field("bar", OptionOf(Prim("u8")))>>
    /\ source = PatFooBar /\ input = ",1"
    /\ result = Ok(StructVal(<<NoneVal, SomeVal(IntVal("u8", FALSE, "1"))>>))

\* C5: a field absent from the capture set of a matching line (no group of
\* its name, or a group that took no part) is, when optional, what the
\* present but empty text makes it, None, and never fails the call; when
\* required it fails the call, and no record is returned.
C5_AbsentField ==
    \A f \in FieldIds :
        (pc = "done" /\ Matches /\ ~Captured(f).some) =>
            IF schema[f].shape.k = "option"
            THEN /\ result.ok =>
                      /\ result.val.fields[f] = NoneVal
                      /\ Ok(result.val.fields[f])
                            = deserialize(schema[f].shape, Value(schema[f].name, "")).res
                 /\ ~result.ok => result.err # Custom("missing field " \o schema[f].name)
                 /\ (\A g \in FieldIds : schema[g].shape.k = "option" /\ ~Captured(g).some)
                        => result.ok
            ELSE ~result.ok

C5_Witness ==
    /\ pc = "done" /\ Matches
    /\ source = PatOptional /\ input = ",x"
    /\ schema = <<Field("foo", OptionOf(Prim("u8"))), Field("bar", Prim("string"))>>
    /\ ~Captured(1).some
    /\ result = Ok(StructVal(<<NoneVal, StringVal("x")>>))

\* C6: an enum field takes a variant exactly when the captured text is,
\* character for character, the name a unit variant deserializes from;
\* any other text (another case, no variant's name, the name of a variant
\* with data) fails the call.
C6_Enum ==
    \A f \in FieldIds :
        (Matches /\ Asked(f) /\ schema[f].shape.k = "enum") =>
            LET vs == schema[f].shape.variants
                named == {i \in 1..Len(vs) : vs[i].kind = "unit" /\ vs[i].rename = Captured(f).text}
            IN  /\ named # {} => \E i \in named : built[f] = SetTo(VariantVal(vs[i].ident))
                /\ named = {} => FailedAt(f) /\ pc = "done" /\ ~result.ok

C6_Witness ==
    /\ pc = "done"
    /\ schema = <<Field("v", DocEnum)>> /\ input = "bar"
    /\ result = Ok(StructVal(<<VariantVal("Bar")>>))

\* C7: an enum field whose captured text names no unit variant ends the
\* call with BadValue carrying the group's name and the text.
C7_EnumBadValue ==
    \A f \in FieldIds :
        (/\ pc = "done" /\ Matches /\ Asked(f)
         /\ schema[f].shape.k = "enum"
         /\ ~Convertible(schema[f].shape, Captured(f).text)) =>
            result = Err(BadValue(schema[f].name, Captured(f).text))

\* C8, as stated: a field of an unsupported structured shape (nested
\* struct, map, sequence, byte blob, tuple or tuple struct of two or more
\* fields, unit) fails the call with Custom, whatever the text.
UnsupportedKinds ==
    {"struct", "map", "seq", "tuple", "tuple_struct", "unit", "unit_struct", "bytes", "byte_buf"}

C9_FromStr ==
    entry = "from_str" =>
        IF Compiles
        THEN pc = "done" => result = from_str_regex(input, ThePattern, schema)
        ELSE /\ pc \in {"start", "done"}
             /\ regex = NoRegex /\ items = <<>> /\ calls = <<>>
             /\ pc = "done" => result = Err(BadRegex)

C9_Witness ==
    /\ entry = "from_str" /\ pc = "done"
    /\ source = PatMalformed /\ input = ""
    /\ result = Err(BadRegex)

\* The fields whose captured text their shape does not convert
Unconvertible ==
    {f \in FieldIds :
        Captured(f).some /\ ~deserialize(schema[f].shape, Value(schema[f].name, Captured(f).text)).res.ok}

ErrorOf(f) == deserialize(schema[f].shape, Value(schema[f].name, Captured(f).text)).res

\* C10, as stated: with two or more unconvertible fields the call returns
\* the error of the one declared first in the schema.
C10_SchemaOrder ==
    (pc = "done" /\ Matches /\ Unconvertible # {}) =>
        LET first == CHOOSE f \in Unconvertible : \A g \in Unconvertible : f <= g
        IN  result = ErrorOf(first)

\* C10, amended: after the one match the groups are converted one at a
\* time in the order the pattern declares them; the first failure ends the
\* call with that group's error alone, and no later group is converted.
C10_GroupOrder ==
    /\ Len(calls) = idx
    /\ Matches =>
          \A f \in FieldIds :
              /\ Asked(f) => \A g \in FieldIds :
                                (Captured(g).some /\ GroupPos(g) < GroupPos(f)) => built[g].set
              /\ f \in Unconvertible =>
                    /\ \A g \in FieldIds :
                          (Captured(g).some /\ GroupPos(g) > GroupPos(f)) => ~Asked(g)
                    /\ built[f].set = FALSE
                    /\ (pc = "done" /\ \A g \in Unconvertible : GroupPos(f) <= GroupPos(g))
                          => result = ErrorOf(f)

C10_Witness ==
    /\ pc = "done"
    /\ schema = <<Field("bar", Prim("u8")), Field("foo", Prim("u8"))>>
    /\ source = PatFooBar /\ input = "x,x"
    /\ idx = 1
    /\ result = Err(BadValue("foo", "x"))

====
